---- MODULE Spec2Model ----
(***************************************************************************)
(* A model of lfsir: the tiered settings table (collect_settings), the     *)
(* metadata registry (Metadata.reload / reload_file), year resolution of   *)
(* versioned metadata, the column cleaning pipeline and the batch driver   *)
(* save_cleaned_tables.                                                    *)
(*                                                                         *)
(* YAML documents are nested mappings.  A mapping is Map(items) with items *)
(* the ordered sequence of its key/value pairs (Python dicts keep the      *)
(* insertion order); any other YAML value is Leaf(scalar).                 *)
(***************************************************************************)
EXTENDS Integers, Sequences, FiniteSets, TLC

VARIABLES
    pc,             \* which operation ran last: the position of the program
    defaultDoc,     \* config/default_settings.yaml, parsed
    packageFiles,   \* YAML files below PACKAGE_DIRECTORY: path -> document
    rootFiles,      \* YAML files below ROOT_DIRECTORT: path -> document
    settings,       \* the module-level flat settings table
    registry,       \* attributes of the Metadata singleton: name -> document
    call,           \* the operation that ran last, with its arguments
    result,         \* what the operation returned or raised
    edits,          \* how many times a local file was edited since the import
    extracted_data, \* CSV files below defaults.extracted_data: path -> table
    cleaned_data,   \* parquet files below defaults.cleaned_data: name -> table
    batch           \* save_cleaned_tables: its pairs, its position, its progress bar

vars == <<pc, defaultDoc, packageFiles, rootFiles, settings, registry, call, result, edits,
          extracted_data, cleaned_data, batch>>

----------------------------------------------------------------------------
(* Scalars: YAML scalars, cell values of a table, arguments.               *)
(* k: none (YAML null), nan (missing marker), num (n / 10^e), atom (an     *)
(* opaque string s), text (a string kept as its characters t), bool.       *)

None == [k |-> "none", n |-> 0, e |-> 0, s |-> "", t |-> <<>>]
NaN == [k |-> "nan", n |-> 0, e |-> 0, s |-> "", t |-> <<>>]
Dec(m, x) == [k |-> "num", n |-> m, e |-> x, s |-> "", t |-> <<>>]
Num(i) == Dec(i, 0)
Atom(str) == [k |-> "atom", n |-> 0, e |-> 0, s |-> str, t |-> <<>>]
Text(chars) == [k |-> "text", n |-> 0, e |-> 0, s |-> "", t |-> chars]
Bool(b) == [k |-> "bool", n |-> IF b THEN 1 ELSE 0, e |-> 0, s |-> "", t |-> <<>>]

(* Keys of a mapping: a name, an integer, a string kept as its characters, *)
(* a single year, an inclusive year range or the fallback.                 *)
KN(str) == [t |-> "name", s |-> str, lo |-> 0, hi |-> 0, c |-> <<>>]
KI(i) == [t |-> "int", s |-> "", lo |-> i, hi |-> i, c |-> <<>>]
KT(chars) == [t |-> "text", s |-> "", lo |-> 0, hi |-> 0, c |-> chars]
KY(y) == [t |-> "year", s |-> "", lo |-> y, hi |-> y, c |-> <<>>]
KR(a, b) == [t |-> "range", s |-> "", lo |-> a, hi |-> b, c |-> <<>>]
KF == [t |-> "fallback", s |-> "", lo |-> 0, hi |-> 0, c |-> <<>>]

Leaf(v) == [kind |-> "leaf", val |-> v, items |-> <<>>]
Map(its) == [kind |-> "map", val |-> None, items |-> its]
Item(key, node) == [key |-> key, node |-> node]
Absent == [kind |-> "absent", val |-> None, items |-> <<>>]

IsDict(node) == node.kind = "map"
Keys(d) == {d.items[i].key : i \in 1..Len(d.items)}
HasKey(d, key) == \E i \in 1..Len(d.items) : d.items[i].key = key
Get(d, key) == d.items[CHOOSE i \in 1..Len(d.items) : d.items[i].key = key].node

(* d[key] = node: an existing key keeps its place, a new one is appended.  *)
Put(d, key, node) ==
    IF HasKey(d, key)
    THEN Map([i \in 1..Len(d.items) |->
                IF d.items[i].key = key THEN Item(key, node) ELSE d.items[i]])
    ELSE Map(Append(d.items, Item(key, node)))

(* The items of a sequence of optional items that are present.             *)
Present(its) == SelectSeq(its, LAMBDA it : it.node.kind # "absent")

----------------------------------------------------------------------------
(* metadata_reader.flatten_dict, collect_settings, _update_settings        *)

RECURSIVE FlattenDict(_), FlattenItems(_)

FlattenItems(its) ==
    IF its = <<>> THEN <<>>
    ELSE LET last == Len(its)
             key == its[last].key
             value == its[last].node
             flattened_dict == FlattenItems(SubSeq(its, 1, last - 1))
         IN  IF IsDict(value)
             THEN LET flattend_value == FlattenDict(value)
                  IN  [p \in {<<key>> \o sub_key : sub_key \in DOMAIN flattend_value}
                          |-> flattend_value[Tail(p)]] @@ flattened_dict
             ELSE [p \in {<<key>>} |-> value.val] @@ flattened_dict

FlattenDict(dictionary) == FlattenItems(dictionary.items)

UpdateSettingsDropsNothing(_settings, new_settings) ==
    new_settings @@ _settings

UpdateSettings(_settings, new_settings) ==
    [key \in DOMAIN _settings |->
        IF key \in DOMAIN new_settings THEN new_settings[key] ELSE _settings[key]]

Exists(files, path) == path \in DOMAIN files

PackageSettingsPath(_settings) == _settings[<<KN("package_settings")>>]
RootSettingPath(_settings) == _settings[<<KN("local_settings")>>]

AfterPackage(defaults, pkg) ==
    LET _settings == FlattenDict(defaults)
        package_settings_path == PackageSettingsPath(_settings)
    IN  IF Exists(pkg, package_settings_path)
        THEN UpdateSettings(_settings, FlattenDict(pkg[package_settings_path]))
        ELSE _settings

CollectSettingsRootFirst(defaults, pkg, root) ==
    LET _settings == FlattenDict(defaults)
        root_setting_path == RootSettingPath(_settings)
        s1 == IF Exists(root, root_setting_path)
              THEN UpdateSettings(_settings, FlattenDict(root[root_setting_path]))
              ELSE _settings
        package_settings_path == PackageSettingsPath(_settings)
    IN  IF Exists(pkg, package_settings_path)
        THEN UpdateSettings(s1, FlattenDict(pkg[package_settings_path]))
        ELSE s1

CollectSettings(defaults, pkg, root) ==
    LET _settings == AfterPackage(defaults, pkg)
        root_setting_path == RootSettingPath(_settings)
    IN  IF Exists(root, root_setting_path)
        THEN UpdateSettings(_settings, FlattenDict(root[root_setting_path]))
        ELSE _settings

----------------------------------------------------------------------------
(* Bounds of the model.                                                    *)

MaxVal == 1         \* override leaves take the values 1..MaxVal
MaxEdits == 2       \* local metadata files are edited at most MaxEdits times
MaxBranches == 2    \* a year-keyed mapping has at most MaxBranches branches
MaxRows == 2        \* a drawn column has at most MaxRows rows

----------------------------------------------------------------------------
(* The settings documents the model draws from: the default document names *)
(* the two override files and holds a nested block and a plain leaf; an    *)
(* override may hold any of them as a leaf, as a mapping, or not at all.   *)

SettingsYaml == Atom("settings.yaml")
LocalYaml == Atom("lfsir_settings.yaml")
AltYaml == Atom("alt_settings.yaml")

OptLeaf(vals) == {Absent} \cup {Leaf(v) : v \in vals}

(* A nested block: its leaves all hold the one value v.                    *)
Blocks(v) ==
    {Map(Present(<<Item(KN("year"), x), Item(KN("weight"), y)>>)) :
        x \in OptLeaf({v}), y \in OptLeaf({v})}

First(vals) == CHOOSE v \in vals : \A w \in vals : v.n <= w.n

Entries(vals) == OptLeaf(vals) \cup Blocks(First(vals))

LeafOrNested(vals) ==
    OptLeaf(vals) \cup {Map(<<Item(KN("year"), Leaf(First(vals)))>>)}

DefaultDocs ==
    {Map(Present(<<Item(KN("package_settings"), Leaf(SettingsYaml)),
                   Item(KN("local_settings"), Leaf(LocalYaml)),
                   Item(KN("columns"), c),
                   Item(KN("first_year"), f)>>)) :
        c \in Entries({Num(0)}), f \in OptLeaf({Num(0)})}

PackageVals == {Num(i) : i \in 1..MaxVal}
RootVals == {Num(MaxVal + i) : i \in 1..MaxVal}

LocalSettingsRedirects ==
    {Absent, Leaf(AltYaml), Map(<<Item(KN("path"), Leaf(AltYaml))>>)}

OverrideDocs(redirects, vals) ==
    {Map(Present(<<Item(KN("local_settings"), r),
                   Item(KN("columns"), c),
                   Item(KN("first_year"), f)>>)) :
        r \in redirects, c \in Entries(vals), f \in LeafOrNested(vals)}

AltDoc ==
    Map(<<Item(KN("columns"), Map(<<Item(KN("weight"), Leaf(Num(0)))>>)),
          Item(KN("first_year"), Leaf(Num(MaxVal)))>>)

OneFile(path, doc) == IF doc = Absent THEN <<>> ELSE [p \in {path} |-> doc]

NoCall == [op |-> "none"]
NoResult == [ok |-> TRUE]
NoBatch == [status |-> "idle"]

InitSettings ==
    /\ pc = "import"
    /\ defaultDoc \in DefaultDocs
    /\ packageFiles \in
         {OneFile(SettingsYaml, d) : d \in {Absent} \cup OverrideDocs(LocalSettingsRedirects, PackageVals)}
    /\ rootFiles \in
         {OneFile(LocalYaml, d) @@ OneFile(AltYaml, a) :
            d \in {Absent} \cup OverrideDocs({Absent}, RootVals), a \in {Absent, AltDoc}}
    /\ settings = <<>>
    /\ registry = <<>>
    /\ call = NoCall
    /\ result = NoResult
    /\ edits = 0
    /\ extracted_data = <<>>
    /\ cleaned_data = <<>>
    /\ batch = NoBatch

(* metadata_reader.py line 186: settings = collect_settings()              *)
ImportSettings ==
    /\ pc = "import"
    /\ settings' = CollectSettings(defaultDoc, packageFiles, rootFiles)
    /\ pc' = "settings"
    /\ UNCHANGED <<defaultDoc, packageFiles, rootFiles, registry, call, result, edits,
                   extracted_data, cleaned_data, batch>>

NextSettings == ImportSettings

SpecSettings == InitSettings /\ [][NextSettings]_vars

----------------------------------------------------------------------------
(* What a document holds at a key-path, read off the nested document.      *)

RECURSIVE LeafAt(_, _)
LeafAt(node, path) ==
    IF path = <<>> THEN node.kind = "leaf"
    ELSE /\ IsDict(node)
         /\ HasKey(node, Head(path))
         /\ LeafAt(Get(node, Head(path)), Tail(path))

RECURSIVE ValueAt(_, _)
ValueAt(node, path) ==
    IF path = <<>> THEN node.val ELSE ValueAt(Get(node, Head(path)), Tail(path))

SettingNames == {KN("package_settings"), KN("local_settings"), KN("columns"),
                 KN("first_year"), KN("year"), KN("weight"), KN("path")}

KeyPaths ==
    {<<a>> : a \in SettingNames}
      \cup {<<a, b>> : a \in SettingNames, b \in SettingNames}

PackageOverride == IF Exists(packageFiles, SettingsYaml) THEN packageFiles[SettingsYaml] ELSE Absent

(* The root override is the file the local_settings entry names once the   *)
(* package override has been merged.                                       *)
RootOverridePath ==
    IF LeafAt(PackageOverride, <<KN("local_settings")>>)
    THEN ValueAt(PackageOverride, <<KN("local_settings")>>)
    ELSE ValueAt(defaultDoc, <<KN("local_settings")>>)

RootOverride == IF Exists(rootFiles, RootOverridePath) THEN rootFiles[RootOverridePath] ELSE Absent

(* C1: every key-path of the defaults holds the root override's value if   *)
(* the root override has that path, else the package override's value if   *)
(* the package override has it, else the default value.                    *)
C1_Precedence ==
    pc = "settings" =>
        \A path \in KeyPaths :
            LeafAt(defaultDoc, path) =>
                /\ path \in DOMAIN settings
                /\ settings[path] =
                     IF LeafAt(RootOverride, path) THEN ValueAt(RootOverride, path)
                     ELSE IF LeafAt(PackageOverride, path) THEN ValueAt(PackageOverride, path)
                     ELSE ValueAt(defaultDoc, path)

(* Both overrides set one default path to different values, another        *)
(* default path is left alone, and a third is set by the package only.     *)
C1_Witness ==
    /\ pc = "settings"
    /\ \E p \in KeyPaths :
         /\ LeafAt(defaultDoc, p) /\ LeafAt(RootOverride, p) /\ LeafAt(PackageOverride, p)
         /\ ValueAt(RootOverride, p) # ValueAt(PackageOverride, p)
         /\ settings[p] = ValueAt(RootOverride, p)
    /\ \E q \in KeyPaths :
         /\ LeafAt(defaultDoc, q) /\ ~LeafAt(RootOverride, q) /\ ~LeafAt(PackageOverride, q)
         /\ q[1] \notin {KN("package_settings"), KN("local_settings")}
         /\ settings[q] = ValueAt(defaultDoc, q)
    /\ \E r \in KeyPaths :
         /\ LeafAt(defaultDoc, r) /\ ~LeafAt(RootOverride, r) /\ LeafAt(PackageOverride, r)
         /\ settings[r] = ValueAt(PackageOverride, r)

(* C2: the key-paths of the merged table are exactly the key-paths of the  *)
(* defaults: a path only an override has never appears.                    *)
C2_NoOverrideOnlyPaths ==
    pc = "settings" =>
        /\ \A path \in DOMAIN settings : LeafAt(defaultDoc, path)
        /\ \A path \in KeyPaths : LeafAt(defaultDoc, path) => path \in DOMAIN settings

(* An override holds a leaf where the defaults hold a mapping, and the     *)
(* other a mapping where the defaults hold a leaf.                         *)
C2_Witness ==
    /\ pc = "settings"
    /\ LeafAt(defaultDoc, <<KN("columns"), KN("year")>>)
    /\ LeafAt(RootOverride, <<KN("columns")>>)
    /\ LeafAt(defaultDoc, <<KN("first_year")>>)
    /\ LeafAt(PackageOverride, <<KN("first_year"), KN("year")>>)
    /\ <<KN("columns")>> \notin DOMAIN settings
    /\ <<KN("first_year"), KN("year")>> \notin DOMAIN settings

----------------------------------------------------------------------------
(* Metadata: reload, reload_file, get_interpreter                          *)

MetadataFiles == <<"instruction", "tables", "industries", "other">>
MetadataNames == {MetadataFiles[i] : i \in 1..Len(MetadataFiles)}

PackagePath(name) == Atom(name)
LocalPath(name) == Atom(name)

(* The default settings name a package file and a local file per document. *)
RegistryDefaults ==
    Map(<<Item(KN("package_settings"), Leaf(SettingsYaml)),
          Item(KN("local_settings"), Leaf(LocalYaml)),
          Item(KN("package_metadata"),
               Map([i \in 1..Len(MetadataFiles) |->
                      Item(KN(MetadataFiles[i]), Leaf(PackagePath(MetadataFiles[i])))])),
          Item(KN("local_metadata"),
               Map([i \in 1..Len(MetadataFiles) |->
                      Item(KN(MetadataFiles[i]), Leaf(LocalPath(MetadataFiles[i])))]))>>)

(* No attribute of Metadata is named <file_name>_interpreter, so           *)
(* get_interpreter returns None and open_yaml parses the text as it is.    *)
GetInterpreter(file_name, context) == None

OpenYaml(files, path, interpreter) == files[path]

RECURSIVE DeepItems(_, _)
DeepItems(d, its) ==
    IF its = <<>> THEN d
    ELSE LET key == Head(its).key
             node == Head(its).node
         IN  DeepItems(
               IF HasKey(d, key) /\ IsDict(Get(d, key)) /\ IsDict(node)
               THEN Put(d, key, DeepItems(Get(d, key), node.items))
               ELSE Put(d, key, node),
               Tail(its))

DictUpdateDeep(d, other) == DeepItems(d, other.items)

RECURSIVE UpdateItems(_, _)
UpdateItems(d, its) ==
    IF its = <<>> THEN d
    ELSE UpdateItems(Put(d, Head(its).key, Head(its).node), Tail(its))

(* dict.update: every top-level key of other replaces or extends d.        *)
DictUpdate(d, other) == UpdateItems(d, other.items)

(* The document reload_file(file_name) stores: _metadata after the update. *)
ReloadedDocument(file_name, table, pkg, root) ==
    LET package_metadata_path == table[<<KN("package_metadata"), KN(file_name)>>]
        local_metadata_path == table[<<KN("local_metadata"), KN(file_name)>>]
        _metadata == OpenYaml(pkg, package_metadata_path, GetInterpreter(file_name, None))
        interpreter == GetInterpreter(file_name, _metadata)
    IN  IF Exists(root, local_metadata_path)
        THEN DictUpdate(_metadata, OpenYaml(root, local_metadata_path, interpreter))
        ELSE _metadata

(* setattr(self, file_name, _metadata)                                     *)
SetAttr(reg, file_name, doc) == [reg EXCEPT ![file_name] = doc]

RECURSIVE ReloadFrom(_, _, _, _, _)
ReloadFrom(i, reg, table, pkg, root) ==
    IF i > Len(MetadataFiles) THEN reg
    ELSE ReloadFrom(i + 1,
                    SetAttr(reg, MetadataFiles[i],
                            ReloadedDocument(MetadataFiles[i], table, pkg, root)),
                    table, pkg, root)

Unloaded == [name \in MetadataNames |-> Absent]

(* Metadata.reload: reload_file for every name of metadata_files in turn.  *)
ReloadAll(reg, table, pkg, root) == ReloadFrom(1, reg, table, pkg, root)

(* The metadata documents the model draws from.                            *)
PackageMetaDocs ==
    {Map(<<Item(KN("k1"), Map(<<Item(KN("x"), Leaf(Num(0))), Item(KN("y"), Leaf(Num(0)))>>)),
           Item(KN("k2"), b)>>) :
        b \in {Leaf(Num(0)), Map(<<Item(KN("x"), Leaf(Num(0)))>>)}}

LocalMetaDocs ==
    {Map(<<Item(KN("k1"), Map(<<Item(KN("x"), Leaf(Num(MaxVal)))>>))>>),
     Map(<<Item(KN("k3"), Leaf(Num(MaxVal))), Item(KN("k2"), Leaf(Num(MaxVal)))>>),
     Map(<<Item(KN("k1"), Leaf(Num(MaxVal)))>>)}

FilesOf(docOf) == [path \in {PackagePath(n) : n \in MetadataNames} |-> docOf]

InitRegistry ==
    /\ pc = "ready"
    /\ defaultDoc = RegistryDefaults
    /\ packageFiles \in {FilesOf(d) : d \in PackageMetaDocs}
    /\ rootFiles \in {<<>>} \cup {OneFile(LocalPath("tables"), d) : d \in LocalMetaDocs}
    /\ settings = CollectSettings(defaultDoc, packageFiles, rootFiles)
    /\ registry = ReloadAll(Unloaded, settings, packageFiles, rootFiles)
    /\ call = NoCall
    /\ result = NoResult
    /\ edits = 0
    /\ extracted_data = <<>>
    /\ cleaned_data = <<>>
    /\ batch = NoBatch

(* The user writes or replaces the local override of one document.         *)
EditLocal(name, doc) ==
    /\ edits < MaxEdits
    /\ ~(Exists(rootFiles, LocalPath(name)) /\ rootFiles[LocalPath(name)] = doc)
    /\ rootFiles' = OneFile(LocalPath(name), doc) @@ rootFiles
    /\ edits' = edits + 1
    /\ call' = [op |-> "edit", name |-> name]
    /\ UNCHANGED <<pc, defaultDoc, packageFiles, settings, registry, result,
                   extracted_data, cleaned_data, batch>>

(* The user removes the local override of one document.                    *)
RemoveLocal(name) ==
    /\ edits < MaxEdits
    /\ Exists(rootFiles, LocalPath(name))
    /\ rootFiles' = [path \in DOMAIN rootFiles \ {LocalPath(name)} |-> rootFiles[path]]
    /\ edits' = edits + 1
    /\ call' = [op |-> "edit", name |-> name]
    /\ UNCHANGED <<pc, defaultDoc, packageFiles, settings, registry, result,
                   extracted_data, cleaned_data, batch>>

(* A reload_file that re-reads every document.                             *)
ReloadFileAll(file_name) ==
    /\ registry' = ReloadAll(registry, settings, packageFiles, rootFiles)
    /\ call' = [op |-> "reload_file", name |-> file_name]
    /\ UNCHANGED <<pc, defaultDoc, packageFiles, rootFiles, settings, result, edits,
                   extracted_data, cleaned_data, batch>>

ReloadFile(file_name) ==
    /\ registry' = SetAttr(registry, file_name,
                           ReloadedDocument(file_name, settings, packageFiles, rootFiles))
    /\ call' = [op |-> "reload_file", name |-> file_name]
    /\ UNCHANGED <<pc, defaultDoc, packageFiles, rootFiles, settings, result, edits,
                   extracted_data, cleaned_data, batch>>

Reload ==
    /\ registry' = ReloadAll(registry, settings, packageFiles, rootFiles)
    /\ call' = [op |-> "reload", name |-> ""]
    /\ UNCHANGED <<pc, defaultDoc, packageFiles, rootFiles, settings, result, edits,
                   extracted_data, cleaned_data, batch>>

NextRegistry ==
    \/ \E name \in MetadataNames, doc \in LocalMetaDocs : EditLocal(name, doc)
    \/ \E name \in MetadataNames : RemoveLocal(name)
    \/ \E name \in MetadataNames : ReloadFile(name)
    \/ Reload

SpecRegistry == InitRegistry /\ [][NextRegistry]_vars

MetaKeys == {KN("k1"), KN("k2"), KN("k3")}

PackageDocument(name) == packageFiles[PackagePath(name)]
LocalDocument(name) ==
    IF Exists(rootFiles, LocalPath(name)) THEN rootFiles[LocalPath(name)] ELSE Map(<<>>)

(* C3: after reload_file(name) the document holds, for each top-level key, *)
(* the local override's value if the override file exists and has the key, *)
(* and the package value otherwise; without an override file it is the     *)
(* package document.                                                       *)
C3_ShallowMerge ==
    call.op = "reload_file" =>
        LET doc == registry[call.name]
            package == PackageDocument(call.name)
            local == LocalDocument(call.name)
        IN  /\ IsDict(doc)
            /\ Keys(doc) \subseteq MetaKeys
            /\ \A key \in MetaKeys :
                 /\ HasKey(doc, key) <=> (HasKey(package, key) \/ HasKey(local, key))
                 /\ HasKey(doc, key) =>
                      Get(doc, key) = IF HasKey(local, key) THEN Get(local, key)
                                      ELSE Get(package, key)
            /\ ~Exists(rootFiles, LocalPath(call.name)) => doc = package

(* A reload that replaced a nested package value by the override's nested  *)
(* value, which lacks one of its keys, and kept another package key.       *)
C3_Witness ==
    /\ call.op = "reload_file"
    /\ Exists(rootFiles, LocalPath(call.name))
    /\ LET doc == registry[call.name]
           package == PackageDocument(call.name)
           local == LocalDocument(call.name)
       IN  /\ HasKey(local, KN("k1")) /\ IsDict(Get(local, KN("k1")))
           /\ IsDict(Get(package, KN("k1")))
           /\ HasKey(Get(package, KN("k1")), KN("y"))
           /\ ~HasKey(Get(doc, KN("k1")), KN("y"))
           /\ ~HasKey(local, KN("k2"))
           /\ Get(doc, KN("k2")) = Get(package, KN("k2"))

----------------------------------------------------------------------------
(* Results of an operation: a value, or the exception it raised.  An       *)
(* exception keeps its class, which message it is, the key-path of the     *)
(* field it is about and the values its message interpolates.              *)

Error(exc, msg, field, args) == [exc |-> exc, msg |-> msg, field |-> field, args |-> args]
NoError == Error("", "", <<>>, <<>>)
Ok(val) == [ok |-> TRUE, val |-> val, err |-> NoError]
Fail(err) == [ok |-> FALSE, val |-> Absent, err |-> err]

Min(S) == CHOOSE i \in S : \A j \in S : i <= j
Max(S) == CHOOSE i \in S : \A j \in S : i >= j

----------------------------------------------------------------------------
(* utils.resolve_metadata: the branch of year-varying metadata that        *)
(* applies to a year.                                                      *)

IsYearSpec(key) == key.t \in {"year", "range", "fallback"}

Contains(key, year) ==
    /\ key.t \in {"year", "range"}
    /\ year.k = "num" /\ year.e = 0
    /\ key.lo <= year.n /\ year.n <= key.hi

IsYearKeyed(node) ==
    /\ IsDict(node)
    /\ node.items # <<>>
    /\ \A i \in 1..Len(node.items) : IsYearSpec(node.items[i].key)

(* The branch a year-keyed mapping selects for the year (0: none).         *)
SelectBranchLast(its, year) ==
    LET matching == {i \in 1..Len(its) : Contains(its[i].key, year)}
        fallback == {i \in 1..Len(its) : its[i].key = KF}
    IN  IF matching # {} THEN Max(matching)
        ELSE IF fallback # {} THEN Min(fallback)
        ELSE 0

SelectBranch(its, year) ==
    LET matching == {i \in 1..Len(its) : Contains(its[i].key, year)}
        fallback == {i \in 1..Len(its) : its[i].key = KF}
    IN  IF matching # {} THEN Min(matching)
        ELSE IF fallback # {} THEN Min(fallback)
        ELSE 0

RECURSIVE ResolveAt(_, _, _)
ResolveAt(node, year, field) ==
    IF ~IsDict(node) THEN Ok(node)
    ELSE IF IsYearKeyed(node)
    THEN LET branch == SelectBranch(node.items, year)
         IN  IF branch = 0
             THEN Fail(Error("ResolutionError", "no branch for year", field, <<year>>))
             ELSE ResolveAt(node.items[branch].node, year, field)
    ELSE LET resolved == [i \in 1..Len(node.items) |->
                            ResolveAt(node.items[i].node, year,
                                      Append(field, node.items[i].key))]
             failed == {i \in 1..Len(node.items) : ~resolved[i].ok}
         IN  IF failed # {} THEN resolved[Min(failed)]
             ELSE Ok(Map([i \in 1..Len(node.items) |->
                            Item(node.items[i].key, resolved[i].val)]))

ResolveMetadata(versioned_metadata, year) == ResolveAt(versioned_metadata, year, <<>>)

(* The versioned metadata the model draws from.                            *)
YearKeys == {KR(1380, 1390), KR(1391, 1395), KR(1388, 1393), KF}
TargetYears == {Num(1388), Num(1393), Num(1400)}
LeafA == Leaf(Atom("A"))
LeafB == Leaf(Atom("B"))

(* Every year-keyed mapping of 1..MaxBranches distinct keys over vals.     *)
YearMaps(vals) ==
    UNION {
      {Map([i \in 1..n |-> Item(ks[i], vs[i])]) :
          ks \in {f \in [1..n -> YearKeys] : \A i, j \in 1..n : i # j => f[i] # f[j]},
          vs \in [1..n -> vals]} :
      n \in 1..MaxBranches}

StaticMaps(pvals, qvals) ==
    {Map(Present(<<Item(KN("p"), x), Item(KN("q"), y)>>)) : x \in pvals, y \in qvals}

VersionedDocs ==
    LET leaves == {LeafA, LeafB}
        flat == YearMaps(leaves)
    IN  flat
          \cup StaticMaps({Absent} \cup leaves, {Absent} \cup leaves)
          \cup StaticMaps(leaves \cup flat, {Absent, LeafA})
          \cup YearMaps({LeafA,
                         Map(<<Item(KN("p"), LeafB)>>),
                         Map(<<Item(KN("p"), Map(<<Item(KR(1380, 1390), LeafB)>>))>>),
                         Map(<<Item(KR(1380, 1390), LeafB)>>)})

InitResolve ==
    /\ pc = "ready"
    /\ defaultDoc = RegistryDefaults
    /\ packageFiles = <<>>
    /\ rootFiles = <<>>
    /\ settings = <<>>
    /\ registry = Unloaded
    /\ call \in {[op |-> "resolve_metadata", node |-> d, year |-> y] :
                    d \in VersionedDocs, y \in TargetYears}
    /\ result = NoResult
    /\ edits = 0
    /\ extracted_data = <<>>
    /\ cleaned_data = <<>>
    /\ batch = NoBatch

Resolve ==
    /\ pc = "ready"
    /\ call.op = "resolve_metadata"
    /\ result' = ResolveMetadata(call.node, call.year)
    /\ pc' = "resolved"
    /\ UNCHANGED <<defaultDoc, packageFiles, rootFiles, settings, registry, call, edits,
                   extracted_data, cleaned_data, batch>>

NextResolve == Resolve

SpecResolve == InitResolve /\ [][NextResolve]_vars

(* C4: at a year-keyed mapping the first branch in document order whose    *)
(* range contains the year is selected and resolved; with no such branch   *)
(* and no fallback the resolution fails with a ResolutionError naming the  *)
(* field and the year; a mapping that is not year-keyed keeps its keys,    *)
(* each value resolved.                                                    *)
C4_Resolve ==
    pc = "resolved" =>
        LET node == call.node
            its == node.items
            year == call.year
            InRange(i) == its[i].key.t \in {"year", "range"}
                            /\ its[i].key.lo <= year.n /\ year.n <= its[i].key.hi
        IN  /\ node.kind = "leaf" => result = Ok(node)
            /\ IsYearKeyed(node) =>
                 /\ \A i \in 1..Len(its) :
                      (InRange(i) /\ \A j \in 1..(i - 1) : ~InRange(j)) =>
                         /\ result = ResolveMetadata(its[i].node, year)
                         /\ its[i].node.kind = "leaf" => result = Ok(its[i].node)
                 /\ ((\A i \in 1..Len(its) : ~InRange(i)) /\ KF \notin Keys(node)) =>
                      /\ ~result.ok
                      /\ result.err.exc = "ResolutionError"
                      /\ result.err.field = <<>>
                      /\ result.err.args = <<year>>
            /\ (IsDict(node) /\ ~IsYearKeyed(node)) =>
                 IF \A i \in 1..Len(its) : ResolveMetadata(its[i].node, year).ok
                 THEN /\ result.ok
                      /\ Len(result.val.items) = Len(its)
                      /\ \A i \in 1..Len(its) :
                           /\ result.val.items[i].key = its[i].key
                           /\ result.val.items[i].node = ResolveMetadata(its[i].node, year).val
                           /\ ~IsDict(its[i].node) => result.val.items[i].node = its[i].node
                 ELSE /\ ~result.ok
                      /\ result.err.exc = "ResolutionError"
                      /\ result.err.args = <<year>>
                      /\ result.err.field # <<>>
            /\ (node = Map(<<Item(KR(1380, 1390), LeafA), Item(KR(1391, 1395), LeafB)>>)) =>
                 result = CASE year = Num(1388) -> Ok(LeafA)
                            [] year = Num(1393) -> Ok(LeafB)
                            [] OTHER -> Fail(Error("ResolutionError", "no branch for year",
                                                   <<>>, <<year>>))

(* Two overlapping ranges contain the year and the first one was taken,    *)
(* although the second holds another value.                                *)
C4_Witness ==
    /\ pc = "resolved"
    /\ IsYearKeyed(call.node)
    /\ Len(call.node.items) = 2
    /\ Contains(call.node.items[1].key, call.year)
    /\ Contains(call.node.items[2].key, call.year)
    /\ call.node.items[1].node = LeafA
    /\ call.node.items[2].node = LeafB
    /\ result = Ok(LeafA)

----------------------------------------------------------------------------
(* data_cleaner._general_cleaning: the text sanitation of a column.        *)

MiddleDot == "chr(183)"
Digits == {"0", "1", "2", "3", "4", "5", "6", "7", "8", "9"}
Letters == {"a", "b", "c"}
WordChars == Digits \cup Letters \cup {"_"}
Whitespace == {" ", "\t", "\n", "\r"}
CharsToRemove == {"\n", "\r", ",", "@", "+", "*", "[", "]", "_", "?", "&"}

(* pd.api.types.is_numeric_dtype: a column read without any string.        *)
IsNumericDtype(column) == \A i \in 1..Len(column) : column[i].k \in {"num", "nan"}

(* .str works on a column that holds strings; on an object column without  *)
(* any it raises AttributeError.                                           *)
HasStrings(column) == \E i \in 1..Len(column) : column[i].k = "text"

StrReplaceChar(chars, old, new) ==
    [i \in 1..Len(chars) |-> IF chars[i] = old THEN new ELSE chars[i]]

RECURSIVE RStrip(_, _)
RStrip(chars, ch) ==
    IF chars # <<>> /\ chars[Len(chars)] = ch
    THEN RStrip(SubSeq(chars, 1, Len(chars) - 1), ch)
    ELSE chars

RemoveChars(chars, set) == SelectSeq(chars, LAMBDA ch : ch \notin set)

(* re.sub(r"\b\-", ""): a hyphen right after a word character goes.        *)
RECURSIVE KeepFrom(_, _)
KeepFrom(chars, i) ==
    IF i > Len(chars) THEN <<>>
    ELSE IF chars[i] = "-" /\ i > 1 /\ chars[i - 1] \in WordChars
    THEN KeepFrom(chars, i + 1)
    ELSE <<chars[i]>> \o KeepFrom(chars, i + 1)

RemoveBoundaryHyphen(chars) == KeepFrom(chars, 1)

(* ^[\s\.\-]*$                                                             *)
IsBlank(chars) == \A i \in 1..Len(chars) : chars[i] \in Whitespace \cup {".", "-"}

SanitizeKeepTrailingDot(chars) ==
    LET dotted == StrReplaceChar(chars, MiddleDot, ".")
        removed == RemoveChars(dotted, CharsToRemove)
    IN  RemoveBoundaryHyphen(removed)

Sanitize(chars) ==
    LET dotted == RStrip(StrReplaceChar(chars, MiddleDot, "."), ".")
        removed == RemoveChars(dotted, CharsToRemove)
    IN  RemoveBoundaryHyphen(removed)

(* A cell that is no string comes out of the .str methods as missing.      *)
CleanCell(cell) ==
    IF cell.k # "text" THEN NaN
    ELSE IF IsBlank(Sanitize(cell.t)) THEN NaN
    ELSE Text(Sanitize(cell.t))

GeneralCleaning(column) ==
    IF IsNumericDtype(column) THEN column
    ELSE IF ~HasStrings(column) THEN column
    ELSE [i \in 1..Len(column) |-> CleanCell(column[i])]

----------------------------------------------------------------------------
(* pd.to_numeric and the casts of a column.                                *)

DigitValue(ch) == CHOOSE d \in 0..9 : <<"0", "1", "2", "3", "4", "5", "6", "7", "8", "9">>[d + 1] = ch

RECURSIVE LStripSpace(_), RStripSpace(_)
LStripSpace(chars) ==
    IF chars # <<>> /\ chars[1] \in Whitespace THEN LStripSpace(Tail(chars)) ELSE chars
RStripSpace(chars) ==
    IF chars # <<>> /\ chars[Len(chars)] \in Whitespace
    THEN RStripSpace(SubSeq(chars, 1, Len(chars) - 1))
    ELSE chars

RECURSIVE DigitsValue(_)
DigitsValue(chars) ==
    IF chars = <<>> THEN 0
    ELSE 10 * DigitsValue(SubSeq(chars, 1, Len(chars) - 1)) + DigitValue(chars[Len(chars)])

RECURSIVE Normalize(_, _)
Normalize(m, x) ==
    IF x > 0 /\ m % 10 = 0 THEN Normalize(m \div 10, x - 1) ELSE Dec(m, x)

Negate(num) == Dec(0 - num.n, num.e)

(* The text of a decimal number: an optional sign, digits, at most one     *)
(* point, at least one digit; spaces around it are skipped.                *)
Unsigned(chars) ==
    IF chars # <<>> /\ chars[1] \in {"-", "+"} THEN Tail(chars) ELSE chars

IsNumericText(chars) ==
    LET body == Unsigned(RStripSpace(LStripSpace(chars)))
        points == {i \in 1..Len(body) : body[i] = "."}
    IN  /\ \A i \in 1..Len(body) : body[i] \in Digits \cup {"."}
        /\ Cardinality(points) <= 1
        /\ \E i \in 1..Len(body) : body[i] \in Digits

ParseNumber(chars) ==
    LET stripped == RStripSpace(LStripSpace(chars))
        body == Unsigned(stripped)
        digits == RemoveChars(body, {"."})
        points == {i \in 1..Len(body) : body[i] = "."}
        fraction == IF points = {} THEN 0 ELSE Len(body) - Min(points)
        magnitude == Normalize(DigitsValue(digits), fraction)
    IN  IF stripped[1] = "-" THEN Negate(magnitude) ELSE magnitude

Unparsable(column) ==
    {i \in 1..Len(column) : column[i].k = "text" /\ ~IsNumericText(column[i].t)}

ToNumericCell(cell) == IF cell.k = "text" THEN ParseNumber(cell.t) ELSE cell

(* errors="coerce": what pd.to_numeric is not called with.                 *)
ToNumericCoerce(column, downcast) ==
    Ok([i \in 1..Len(column) |->
          IF i \in Unparsable(column) THEN NaN ELSE ToNumericCell(column[i])])

(* pd.to_numeric(column, downcast=...): errors="raise" is the default; the *)
(* downcast narrows the dtype and keeps the values.                        *)
ToNumeric(column, downcast) ==
    IF Unparsable(column) # {}
    THEN Fail(Error("ValueError", "Unable to parse string", <<>>,
                    <<column[Min(Unparsable(column))]>>))
    ELSE Ok([i \in 1..Len(column) |-> ToNumericCell(column[i])])

(* astype("Int32") and astype("UInt8" ..): missing stays missing, a whole  *)
(* number in range is kept, anything else makes the cast raise.  Text is   *)
(* read as a number first.                                                 *)
IsWhole(cell) ==
    \/ cell.k = "num" /\ cell.e = 0
    \/ cell.k = "text" /\ IsNumericText(cell.t) /\ ParseNumber(cell.t).e = 0

Bits(type) ==
    CASE type = "UInt8" -> 8 [] type = "UInt16" -> 16 [] type = "UInt32" -> 32
      [] type = "UInt64" -> 64

InRangeUnsigned(n, bits) == n >= 0 /\ (bits >= 31 \/ n < 2 ^ bits)

CastCells(column, in_range) ==
    LET bad == {i \in 1..Len(column) :
                  /\ column[i].k # "nan"
                  /\ ~(IsWhole(column[i]) /\ ToNumericCell(column[i]).n \in in_range)}
    IN  IF bad # {}
        THEN Fail(Error("TypeError", "cannot safely cast", <<>>, <<column[Min(bad)]>>))
        ELSE Ok([i \in 1..Len(column) |-> ToNumericCell(column[i])])

AsInt32(column) == CastCells(column, Int)
AsUnsigned(column, type) == CastCells(column, {n \in Nat : InRangeUnsigned(n, Bits(type))})

----------------------------------------------------------------------------
(* data_cleaner._apply_metadata_to_column, _apply_type_to_column           *)

NumericTypes == {"unsigned", "integer", "float"}
FixedWidthTypes == {"UInt8", "UInt16", "UInt32", "UInt64"}

KeyError(key) == Error("KeyError", "key", <<>>, <<Atom(key)>>)

(* A value and a dict key that compare equal.                              *)
KeyMatches(key, cell) ==
    \/ key.t = "int" /\ cell = Num(key.lo)
    \/ key.t = "text" /\ cell = Text(key.c)

Mapped(mapping, cell) == \E i \in 1..Len(mapping.items) : KeyMatches(mapping.items[i].key, cell)
MappedTo(mapping, cell) ==
    mapping.items[CHOOSE i \in 1..Len(mapping.items) :
                    KeyMatches(mapping.items[i].key, cell)].node.val

(* Series.replace(dict)                                                    *)
Replace(column, mapping) ==
    [i \in 1..Len(column) |->
        IF Mapped(mapping, column[i]) THEN MappedTo(mapping, column[i]) ELSE column[i]]

(* astype("category").cat.rename_categories(dict): a category the dict     *)
(* does not hold keeps its name; the new names must be unique and not null *)
RenameCategories(column, mapping) ==
    LET categories == {column[i] : i \in {j \in 1..Len(column) : column[j].k # "nan"}}
        NewName(c) == IF Mapped(mapping, c) THEN MappedTo(mapping, c) ELSE c
        renamed == {NewName(c) : c \in categories}
    IN  IF \E c \in renamed : c.k \in {"none", "nan"}
        THEN Fail(Error("ValueError", "Categorical categories cannot be null", <<>>, <<>>))
        ELSE IF Cardinality(renamed) # Cardinality(categories)
        THEN Fail(Error("ValueError", "Categorical categories must be unique", <<>>, <<>>))
        ELSE Ok([i \in 1..Len(column) |->
                   IF column[i].k = "nan" THEN NaN ELSE NewName(column[i])])

ApplyCategory(column, column_metadata) ==
    IF ~HasKey(column_metadata, KN("categories")) THEN Fail(KeyError("categories"))
    ELSE LET categories == Get(column_metadata, KN("categories"))
         IN  IF ~IsDict(categories)
             THEN Fail(Error("AttributeError", "keys", <<>>, <<>>))
             ELSE IF categories.items = <<>>
             THEN Fail(Error("IndexError", "list index out of range", <<>>, <<>>))
             ELSE IF categories.items[1].key.t = "int"
             THEN LET codes == AsInt32(column)
                  IN  IF codes.ok THEN RenameCategories(codes.val, categories) ELSE codes
             ELSE RenameCategories(column, categories)

ApplyBoolean(column, column_metadata) ==
    IF ~HasKey(column_metadata, KN("true_condition")) THEN Fail(KeyError("true_condition"))
    ELSE LET codes == AsInt32(column)
             true_condition == Get(column_metadata, KN("true_condition")).val
         IN  IF ~codes.ok THEN codes
             ELSE Ok([i \in 1..Len(column) |->
                        IF codes.val[i].k = "nan" THEN NaN
                        ELSE Bool(codes.val[i] = true_condition)])

TypeIs(column_metadata, types) ==
    Get(column_metadata, KN("type")) \in {Leaf(Atom(type)) : type \in types}

(* new_column starts as a column of np.nan and stays so when no branch of  *)
(* the type dispatch applies.                                              *)
ApplyTypeToColumn(column, column_metadata) ==
    LET cleaned == GeneralCleaning(column)
    IN  IF ~HasKey(column_metadata, KN("type")) \/ TypeIs(column_metadata, {"string"})
        THEN Ok(cleaned)
        ELSE IF TypeIs(column_metadata, {"boolean"})
        THEN ApplyBoolean(cleaned, column_metadata)
        ELSE IF TypeIs(column_metadata, NumericTypes)
        THEN ToNumeric(cleaned, Get(column_metadata, KN("type")).val.s)
        ELSE IF TypeIs(column_metadata, FixedWidthTypes)
        THEN AsUnsigned(cleaned, Get(column_metadata, KN("type")).val.s)
        ELSE IF TypeIs(column_metadata, {"category"})
        THEN ApplyCategory(cleaned, column_metadata)
        ELSE Ok([i \in 1..Len(column) |-> NaN])

ApplyMetadataToColumn(column, column_metadata) ==
    IF HasKey(column_metadata, KN("replace")) /\ Get(column_metadata, KN("replace")) # Leaf(None)
    THEN ApplyTypeToColumn(Replace(column, Get(column_metadata, KN("replace"))), column_metadata)
    ELSE ApplyTypeToColumn(column, column_metadata)

----------------------------------------------------------------------------
(* Cleaning one column: the columns and column metadata the model draws.   *)

TwoSpaces == Text(<<" ", " ">>)
Hyphen == Text(<<"-">>)
ThreeDotZeroDot == Text(<<"3", ".", "0", ".">>)
Abc == Text(<<"a", "b", "c">>)
ThreeMiddleDotFive == Text(<<"3", MiddleDot, "5">>)
SevenHyphen == Text(<<"7", "-">>)
MinusSeven == Text(<<"-", "7">>)
OneCommaFive == Text(<<"1", ",", "5">>)

TextCells == {TwoSpaces, Hyphen, ThreeDotZeroDot, Abc, ThreeMiddleDotFive, SevenHyphen,
              MinusSeven, OneCommaFive}
CodeCells == {Num(1), Num(2), Num(9)}

ColumnsOver(cells) == UNION {[1..n -> cells] : n \in 1..MaxRows}

FloatExample == <<TwoSpaces, Hyphen, ThreeDotZeroDot, Abc>>
CategoryExample == <<Num(1), Num(2), Num(9), NaN>>

(* A column read from a CSV file holds numbers, or strings, and missing.   *)
RawColumns ==
    {c \in ColumnsOver(TextCells \cup {NaN}) : HasStrings(c)}
      \cup ColumnsOver(CodeCells \cup {NaN})
      \cup {FloatExample, CategoryExample}

UrbanRural == Map(<<Item(KI(1), Leaf(Atom("Urban"))), Item(KI(2), Leaf(Atom("Rural")))>>)

CategoryMaps ==
    {Absent, UrbanRural, Map(<<>>),
     Map(<<Item(KT(<<"a", "b", "c">>), Leaf(Atom("Urban")))>>)}

ReplaceMaps ==
    {Absent, Leaf(None),
     Map(<<Item(KI(9), Leaf(Num(1)))>>),
     Map(<<Item(KT(<<"-">>), Leaf(Num(0)))>>)}

RecognizedTypes ==
    {"string", "boolean", "category"} \cup NumericTypes \cup FixedWidthTypes
DrawnTypes == {"string", "boolean", "unsigned", "integer", "float", "UInt8", "int", "Float"}

ColumnMetadata(new_name, type, replace, categories) ==
    Map(Present(<<Item(KN("new_name"), Leaf(Atom(new_name))),
                  Item(KN("type"), type),
                  Item(KN("replace"), replace),
                  Item(KN("true_condition"), Leaf(Num(1))),
                  Item(KN("categories"), categories)>>))

ColumnMetadatas ==
    {ColumnMetadata("x", type, replace, Absent) :
        type \in {Absent} \cup {Leaf(Atom(t)) : t \in DrawnTypes}, replace \in ReplaceMaps}
      \cup {ColumnMetadata("x", Leaf(Atom("category")), replace, categories) :
              replace \in ReplaceMaps, categories \in CategoryMaps}

InitColumn ==
    /\ pc = "ready"
    /\ defaultDoc = RegistryDefaults
    /\ packageFiles = <<>>
    /\ rootFiles = <<>>
    /\ settings = <<>>
    /\ registry = Unloaded
    /\ call \in {[op |-> "apply_metadata_to_column", column |-> c, column_metadata |-> m] :
                    c \in RawColumns, m \in ColumnMetadatas}
    /\ result = NoResult
    /\ edits = 0
    /\ extracted_data = <<>>
    /\ cleaned_data = <<>>
    /\ batch = NoBatch

ApplyColumn ==
    /\ pc = "ready"
    /\ call.op = "apply_metadata_to_column"
    /\ result' = ApplyMetadataToColumn(call.column, call.column_metadata)
    /\ pc' = "applied"
    /\ UNCHANGED <<defaultDoc, packageFiles, rootFiles, settings, registry, call, edits,
                   extracted_data, cleaned_data, batch>>

NextColumn == ApplyColumn

SpecColumn == InitColumn /\ [][NextColumn]_vars

(* What the sanitation and the numeric parse make of each drawn string.    *)
UnparsableCells == {Abc}
ExpectedNumber(cell) ==
    CASE cell = TwoSpaces -> NaN
      [] cell = Hyphen -> NaN
      [] cell = ThreeDotZeroDot -> Num(3)
      [] cell = ThreeMiddleDotFive -> Dec(35, 1)
      [] cell = SevenHyphen -> Num(7)
      [] cell = MinusSeven -> Num(0 - 7)
      [] cell = OneCommaFive -> Num(15)
      [] OTHER -> NaN

NoReplace(column_metadata) ==
    ~HasKey(column_metadata, KN("replace")) \/ Get(column_metadata, KN("replace")) = Leaf(None)

NumericTextCase ==
    /\ pc = "applied"
    /\ HasStrings(call.column)
    /\ HasKey(call.column_metadata, KN("type"))
    /\ TypeIs(call.column_metadata, NumericTypes)
    /\ NoReplace(call.column_metadata)

C7_UnmappedBecomesMissing ==
    ( /\ pc = "applied"
      /\ IsNumericDtype(call.column)
      /\ HasKey(call.column_metadata, KN("type"))
      /\ TypeIs(call.column_metadata, {"category"})
      /\ NoReplace(call.column_metadata)
      /\ HasKey(call.column_metadata, KN("categories"))
      /\ Get(call.column_metadata, KN("categories")) = UrbanRural )
    =>
        /\ result.ok
        /\ Len(result.val) = Len(call.column)
        /\ \A i \in 1..Len(call.column) :
             result.val[i] = CASE call.column[i] = Num(1) -> Atom("Urban")
                               [] call.column[i] = Num(2) -> Atom("Rural")
                               [] OTHER -> NaN

(* C8: a declared type that is not a recognized one makes the cleaning of  *)
(* the column fail; no column is returned.                                 *)
C8_UnrecognizedTypeFails ==
    ( /\ pc = "applied"
      /\ HasKey(call.column_metadata, KN("type"))
      /\ ~TypeIs(call.column_metadata, RecognizedTypes) )
    => ~result.ok

----------------------------------------------------------------------------
(* data_cleaner: cleaning a table.  A DataFrame is the sequence of its     *)
(* columns in order, each a name and its cells.                            *)

Column(name, cells) == [name |-> name, column |-> cells]

UpperChar(ch) ==
    CASE ch = "a" -> "A" [] ch = "b" -> "B" [] ch = "c" -> "C" [] ch = "d" -> "D"
      [] ch = "t" -> "T" [] ch = "z" -> "Z" [] OTHER -> ch
Upper(chars) == [i \in 1..Len(chars) |-> UpperChar(chars[i])]

(* The dict key a value looks up.                                          *)
KeyOf(value) == IF value.k = "num" THEN KI(value.n) ELSE KT(value.t)
KeyErrorOf(key) == Error("KeyError", "key", <<>>, <<key>>)
TypeError == Error("TypeError", "not a mapping", <<>>, <<>>)

Drop == Leaf(Atom("drop"))
ErrorPolicy == Leaf(Atom("error"))

RECURSIVE FillSettings(_, _)
FillSettings(table_settings, default_items) ==
    IF default_items = <<>> THEN table_settings
    ELSE FillSettings(IF HasKey(table_settings, Head(default_items).key)
                      THEN table_settings
                      ELSE Put(table_settings, Head(default_items).key,
                               Head(default_items).node),
                      Tail(default_items))

GetTableSettingsDefaultOnly(table_metadata, tables) ==
    IF ~HasKey(tables, KN("default_table_settings"))
    THEN Fail(KeyErrorOf(KN("default_table_settings")))
    ELSE Ok(Get(tables, KN("default_table_settings")))

GetTableSettings(table_metadata, tables) ==
    IF ~HasKey(tables, KN("default_table_settings"))
    THEN Fail(KeyErrorOf(KN("default_table_settings")))
    ELSE LET default_table_settings == Get(tables, KN("default_table_settings"))
         IN  IF ~IsDict(table_metadata) THEN Fail(TypeError)
             ELSE IF ~HasKey(table_metadata, KN("settings"))
             THEN Ok(default_table_settings)
             ELSE LET table_settings == Get(table_metadata, KN("settings"))
                  IN  IF ~IsDict(table_settings) \/ ~IsDict(default_table_settings)
                      THEN Fail(TypeError)
                      ELSE Ok(FillSettings(table_settings, default_table_settings.items))

(* A lookup that lets a listed "error" through.                             *)
GetColumnMetadataListedError(table_metadata, column_name, tables) ==
    LET table_settings == GetTableSettings(table_metadata, tables)
    IN  IF ~table_settings.ok THEN table_settings
        ELSE IF ~HasKey(table_metadata, KN("columns"))
        THEN Fail(KeyErrorOf(KN("columns")))
        ELSE LET columns_metadata == Get(table_metadata, KN("columns"))
             IN  IF ~IsDict(columns_metadata)
                 THEN Fail(Error("ValueError", "Unvalid metadata for column", <<>>,
                                 <<Text(column_name), columns_metadata>>))
                 ELSE IF HasKey(columns_metadata, KT(column_name))
                 THEN LET column_metadata == Get(columns_metadata, KT(column_name))
                      IN  IF IsDict(column_metadata) \/ column_metadata \in {Drop, ErrorPolicy}
                          THEN Ok(column_metadata)
                          ELSE Fail(Error("ValueError", "Metadata for column is not valid",
                                          <<>>, <<Text(column_name)>>))
                 ELSE IF ~HasKey(table_settings.val, KN("missings"))
                 THEN Fail(KeyErrorOf(KN("missings")))
                 ELSE LET column_metadata == Get(table_settings.val, KN("missings"))
                      IN  IF column_metadata \in {Drop, ErrorPolicy}
                          THEN Ok(column_metadata)
                          ELSE Fail(Error("ValueError", "Missing treatment is not valid",
                                          <<>>, <<>>))

GetColumnMetadata(table_metadata, column_name, tables) ==
    LET table_settings == GetTableSettings(table_metadata, tables)
    IN  IF ~table_settings.ok THEN table_settings
        ELSE IF ~HasKey(table_metadata, KN("columns"))
        THEN Fail(KeyErrorOf(KN("columns")))
        ELSE LET columns_metadata == Get(table_metadata, KN("columns"))
             IN  IF ~IsDict(columns_metadata)
                 THEN Fail(Error("ValueError", "Unvalid metadata for column", <<>>,
                                 <<Text(column_name), columns_metadata>>))
                 ELSE IF HasKey(columns_metadata, KT(column_name))
                 THEN LET column_metadata == Get(columns_metadata, KT(column_name))
                      IN  IF IsDict(column_metadata) \/ column_metadata = Drop
                          THEN Ok(column_metadata)
                          ELSE Fail(Error("ValueError", "Metadata for column is not valid",
                                          <<>>, <<Text(column_name)>>))
                 ELSE IF ~HasKey(table_settings.val, KN("missings"))
                 THEN Fail(KeyErrorOf(KN("missings")))
                 ELSE LET column_metadata == Get(table_settings.val, KN("missings"))
                      IN  IF column_metadata \in {Drop, ErrorPolicy}
                          THEN Ok(column_metadata)
                          ELSE Fail(Error("ValueError", "Missing treatment is not valid",
                                          <<>>, <<>>))

(* cleaned_table[name] = column: a new column goes last, a column that is  *)
(* there keeps its place.                                                  *)
SetColumn(cleaned_table, name, column) ==
    IF \E j \in 1..Len(cleaned_table) : cleaned_table[j].name = name
    THEN [j \in 1..Len(cleaned_table) |->
            IF cleaned_table[j].name = name THEN Column(name, column) ELSE cleaned_table[j]]
    ELSE Append(cleaned_table, Column(name, column))

ColumnNotFound(column_name) ==
    Error("ValueError", "The column was not found in the metadata", <<>>,
          <<Text(column_name)>>)

RECURSIVE ApplyColumns(_, _, _, _, _)
ApplyColumns(table, i, cleaned_table, table_metadata, tables) ==
    IF i > Len(table) THEN Ok(cleaned_table)
    ELSE LET column_name == table[i].name
             column_metadata == GetColumnMetadata(table_metadata, Upper(column_name), tables)
         IN  IF ~column_metadata.ok THEN column_metadata
             ELSE IF column_metadata.val = Drop
             THEN ApplyColumns(table, i + 1, cleaned_table, table_metadata, tables)
             ELSE IF column_metadata.val = ErrorPolicy
             THEN Fail(ColumnNotFound(column_name))
             ELSE LET column == ApplyMetadataToColumn(table[i].column, column_metadata.val)
                  IN  IF ~column.ok THEN column
                      ELSE IF ~HasKey(column_metadata.val, KN("new_name"))
                      THEN Fail(KeyErrorOf(KN("new_name")))
                      ELSE ApplyColumns(table, i + 1,
                                        SetColumn(cleaned_table,
                                                  Get(column_metadata.val, KN("new_name")).val,
                                                  column.val),
                                        table_metadata, tables)

ApplyMetadataToTable(table, table_metadata, tables) ==
    ApplyColumns(table, 1, <<>>, table_metadata, tables)

RECURSIVE DigitsOf(_)
DigitsOf(n) ==
    LET last == <<"0", "1", "2", "3", "4", "5", "6", "7", "8", "9">>[(n % 10) + 1]
    IN  IF n < 10 THEN <<last>> ELSE Append(DigitsOf(n \div 10), last)

(* str(value), and f"{value}"                                              *)
Str(value) == IF value.k = "num" THEN Text(DigitsOf(value.n)) ELSE value

CsvPath(year, file_code) == [dir |-> Str(year), file |-> file_code.val, suffix |-> ".csv"]

LoadRawData(year, table_name, tables, files) ==
    IF ~HasKey(tables, KeyOf(table_name)) THEN Fail(KeyErrorOf(KeyOf(table_name)))
    ELSE LET versioned == Get(tables, KeyOf(table_name))
         IN  IF ~IsDict(versioned) THEN Fail(TypeError)
             ELSE IF ~HasKey(versioned, KN("file_code"))
             THEN Fail(KeyErrorOf(KN("file_code")))
             ELSE LET file_code == ResolveMetadata(Get(versioned, KN("file_code")), year)
                  IN  IF ~file_code.ok THEN file_code
                      ELSE IF file_code.val = Leaf(None)
                      THEN Fail(Error("ValueError", "Table is not available for year", <<>>,
                                      <<table_name, year>>))
                      ELSE IF ~Exists(files, CsvPath(year, file_code.val))
                      THEN Fail(Error("FileNotFoundError", "file", <<>>,
                                      <<CsvPath(year, file_code.val)>>))
                      ELSE Ok(files[CsvPath(year, file_code.val)])

OpenAndCleanTable(year, table_name, tables, files) ==
    LET table == LoadRawData(year, table_name, tables, files)
    IN  IF ~table.ok THEN table
        ELSE LET table_metadata == ResolveMetadata(Get(tables, KeyOf(table_name)), year)
             IN  IF ~table_metadata.ok THEN table_metadata
                 ELSE ApplyMetadataToTable(table.val, table_metadata.val, tables)

----------------------------------------------------------------------------
(* Cleaning one table: the metadata and the raw tables the model draws.    *)

MaxCols == 3        \* a drawn raw table has at most MaxCols columns

DataName == <<"d", "a", "t", "a">>
Year1390 == Num(1390)
Year1391 == Num(1391)
FileCode == Leaf(Atom("LFS_RawData"))

RawNames == {<<"a">>, <<"A">>, <<"B">>, <<"z">>}
RawCells == {<<Num(1), Num(2)>>, <<Num(2), Num(9)>>, <<SevenHyphen, Abc>>}

RawTables ==
    UNION {
      {[i \in 1..n |-> Column(names[i], cells[i])] :
          names \in {f \in [1..n -> RawNames] : \A i, j \in 1..n : i # j => f[i] # f[j]},
          cells \in [1..n -> RawCells]} :
      n \in 1..MaxCols}

AgeMetadata ==
    Map(<<Item(KN("new_name"), Leaf(Atom("age"))), Item(KN("type"), Leaf(Atom("integer")))>>)
RegionMetadata == ColumnMetadata("region", Leaf(Atom("category")), Absent, UrbanRural)

ColumnsMetadatas ==
    {Map(<<Item(KT(<<"A">>), AgeMetadata), Item(KT(<<"B">>), b)>>) :
        b \in {Drop, RegionMetadata}}

Missings(policy) == Map(<<Item(KN("missings"), Leaf(Atom(policy)))>>)
TableSettings == {Absent, Map(<<>>), Missings("drop"), Missings("error"), Missings("keep")}
DefaultTableSettings == {Missings("drop"), Missings("error")}

TableMetadata(settings_block, columns_metadata) ==
    Map(Present(<<Item(KN("file_code"), FileCode),
                  Item(KN("settings"), settings_block),
                  Item(KN("columns"), columns_metadata)>>))

TableMetadatas ==
    {TableMetadata(s, c) : s \in TableSettings, c \in ColumnsMetadatas}

TablesDocument(default_table_settings, table_metadata) ==
    Map(<<Item(KN("default_table_settings"), default_table_settings),
          Item(KT(DataName), table_metadata)>>)

Loaded(tables) == [name \in MetadataNames |-> IF name = "tables" THEN tables ELSE Map(<<>>)]

InitClean ==
    /\ pc = "ready"
    /\ defaultDoc = RegistryDefaults
    /\ packageFiles = <<>>
    /\ rootFiles = <<>>
    /\ settings = <<>>
    /\ registry \in {Loaded(TablesDocument(d, m)) :
                        d \in DefaultTableSettings, m \in TableMetadatas}
    /\ call = [op |-> "open_and_clean_table", year |-> Year1390, table_name |-> Text(DataName)]
    /\ result = NoResult
    /\ edits = 0
    /\ extracted_data \in {[path \in {CsvPath(Year1390, FileCode)} |-> table] :
                              table \in RawTables}
    /\ cleaned_data = <<>>
    /\ batch = NoBatch

(* Whether the mapping utils.resolve_metadata returns for a static subtree  *)
(* is the registry's own object: the resolver returns the structure with   *)
(* the year-keyed branches resolved away, which it builds.                 *)
ResolvedIsOwnAlways(versioned_metadata, year) == TRUE

ResolvedIsOwn(versioned_metadata, year) == FALSE

(* metadata.tables after a cleaning: _get_table_settings fills the fields  *)
(* the settings block lacks into the mapping it was handed (line 129).     *)
TablesAfter(year, table_name, tables, files) ==
    LET table == LoadRawData(year, table_name, tables, files)
        versioned == Get(tables, KeyOf(table_name))
        table_metadata == ResolveMetadata(versioned, year)
        table_settings == GetTableSettings(table_metadata.val, tables)
    IN  IF /\ table.ok
           /\ table_metadata.ok
           /\ Len(table.val) >= 1
           /\ HasKey(versioned, KN("settings"))
           /\ ResolvedIsOwn(versioned, year)
           /\ table_settings.ok
        THEN Put(tables, KeyOf(table_name),
                 Put(versioned, KN("settings"), table_settings.val))
        ELSE tables

Clean ==
    /\ pc = "ready"
    /\ call.op = "open_and_clean_table"
    /\ result' = OpenAndCleanTable(call.year, call.table_name, registry["tables"],
                                   extracted_data)
    /\ registry' = SetAttr(registry, "tables",
                           TablesAfter(call.year, call.table_name, registry["tables"],
                                       extracted_data))
    /\ pc' = "cleaned"
    /\ UNCHANGED <<defaultDoc, packageFiles, rootFiles, settings, call, edits,
                   extracted_data, cleaned_data, batch>>

(* The same call once more, with no reload in between.                     *)
CleanAgain ==
    /\ pc = "cleaned"
    /\ call.op = "open_and_clean_table"
    /\ result' = OpenAndCleanTable(call.year, call.table_name, registry["tables"],
                                   extracted_data)
    /\ registry' = SetAttr(registry, "tables",
                           TablesAfter(call.year, call.table_name, registry["tables"],
                                       extracted_data))
    /\ pc' = "cleaned again"
    /\ UNCHANGED <<defaultDoc, packageFiles, rootFiles, settings, call, edits,
                   extracted_data, cleaned_data, batch>>

NextClean == Clean \/ CleanAgain

SpecClean == InitClean /\ [][NextClean]_vars

RawTable == extracted_data[CsvPath(Year1390, FileCode)]
DataMetadata == Get(registry["tables"], KT(DataName))
Listed(name) == HasKey(Get(DataMetadata, KN("columns")), KT(Upper(name)))
ListedMetadata(name) == Get(Get(DataMetadata, KN("columns")), KT(Upper(name)))
Unlisted == {i \in 1..Len(RawTable) : ~Listed(RawTable[i].name)}

(* The missing-column policy in effect: the table's own, else the one of   *)
(* the default_table_settings block.                                       *)
PolicyInEffect ==
    IF HasKey(DataMetadata, KN("settings"))
         /\ HasKey(Get(DataMetadata, KN("settings")), KN("missings"))
    THEN Get(Get(DataMetadata, KN("settings")), KN("missings"))
    ELSE Get(Get(registry["tables"], KN("default_table_settings")), KN("missings"))

CleansAlone(i) ==
    \/ ListedMetadata(RawTable[i].name) = Drop
    \/ ApplyMetadataToColumn(RawTable[i].column, ListedMetadata(RawTable[i].name)).ok

NewNames ==
    {Get(ListedMetadata(RawTable[i].name), KN("new_name")).val :
        i \in {j \in 1..Len(RawTable) : Listed(RawTable[j].name)
                                          /\ ListedMetadata(RawTable[j].name) # Drop}}

UnlistedCase ==
    /\ pc \in {"cleaned", "cleaned again"}
    /\ call.op = "open_and_clean_table"
    /\ Unlisted # {}

DropHolds ==
    (PolicyInEffect = Drop
        /\ \A i \in 1..Len(RawTable) : Listed(RawTable[i].name) => CleansAlone(i))
    => /\ result.ok
       /\ {result.val[j].name : j \in 1..Len(result.val)} = NewNames
       /\ result = ApplyMetadataToTable(SelectSeq(RawTable, LAMBDA c : Listed(c.name)),
                                        DataMetadata, registry["tables"])

FirstUnlistedReached ==
    \A j \in 1..(Min(Unlisted) - 1) : CleansAlone(j)

(* C5 (as stated): under policy drop the cleaned table omits the unlisted  *)
(* column and cleaning succeeds; under policy error cleaning fails with an *)
(* UnexpectedColumnError that names both the table and the column.         *)
C5_NamesTableAndColumn ==
    UnlistedCase =>
        /\ DropHolds
        /\ (PolicyInEffect = ErrorPolicy /\ FirstUnlistedReached) =>
              /\ ~result.ok
              /\ result.err.exc = "UnexpectedColumnError"
              /\ \E k \in 1..Len(result.err.args) : result.err.args[k] = call.table_name
              /\ \E k \in 1..Len(result.err.args) :
                    result.err.args[k] = Text(RawTable[Min(Unlisted)].name)

(* C5 (amended): under policy drop the cleaned table omits the unlisted    *)
(* column and cleaning succeeds; under policy error cleaning fails with a  *)
(* ValueError that names the column only, as it is spelled in the raw      *)
(* table, and no cleaned table is returned.                                *)
C5_UnlistedColumn ==
    UnlistedCase =>
        /\ DropHolds
        /\ (PolicyInEffect = ErrorPolicy /\ FirstUnlistedReached) =>
              /\ ~result.ok
              /\ result.val = Absent
              /\ result.err = ColumnNotFound(RawTable[Min(Unlisted)].name)
              /\ result.err.exc = "ValueError"
              /\ result.err.args = <<Text(RawTable[Min(Unlisted)].name)>>

(* The table's own policy error overrode the default drop: the cleaning    *)
(* of a table whose second column is unlisted failed naming that column.   *)
C5_Witness ==
    /\ UnlistedCase
    /\ Get(Get(registry["tables"], KN("default_table_settings")), KN("missings")) = Drop
    /\ PolicyInEffect = ErrorPolicy
    /\ Len(RawTable) = 2
    /\ Unlisted = {2}
    /\ ~result.ok
    /\ result.err.args = <<Text(<<"z">>)>>

----------------------------------------------------------------------------
(* data_cleaner.save_cleaned_tables: cleaning and saving a batch.          *)

MaxYears == 2       \* a batch is asked for at most MaxYears years

OriginalTables == <<Text(DataName)>>

AllTables == [all |-> TRUE, names |-> <<>>]
Names(table_names) == [all |-> FALSE, names |-> table_names]

Pair(table_name, year) == [table_name |-> table_name, year |-> year]

(* utils.construct_table_year_pairs: the cartesian product, table by table.*)
ConstructTableYearPairs(table_names, years) ==
    [k \in 1..(Len(table_names) * Len(years)) |->
        Pair(table_names[((k - 1) \div Len(years)) + 1], years[((k - 1) % Len(years)) + 1])]

(* f"{year}_{_table_name}.parquet"                                         *)
FileName(year, table_name) ==
    Text(Str(year).t \o <<"_">> \o Str(table_name).t \o <<".parquet">>)

(* open_and_clean_table(_table_name, year): the two values are handed over *)
(* by position, to the parameters (year, table_name).                      *)
CleanPair(pair, tables, files) == OpenAndCleanTable(pair.table_name, pair.year, tables, files)

ToParquet(files, name, table) ==
    [f \in DOMAIN files \cup {name} |-> IF f = name THEN table ELSE files[f]]

RawGood == <<Column(<<"a">>, <<Num(1), Num(2)>>), Column(<<"B">>, <<Num(1), Num(9)>>)>>
RawDrift == <<Column(<<"a">>, <<Num(1), Num(2)>>), Column(<<"z">>, <<Num(1), Num(9)>>)>>
StaleTable == <<Column(Atom("old"), <<Num(0)>>)>>
StaleName == FileName(Year1390, Text(DataName))

Lenient == TableMetadata(Absent, Map(<<Item(KT(<<"A">>), AgeMetadata), Item(KT(<<"B">>), Drop)>>))
Strict ==
    TableMetadata(Missings("error"),
                  Map(<<Item(KT(<<"A">>), AgeMetadata), Item(KT(<<"B">>), Drop)>>))

(* tables.yaml: the table "data", and possibly tables keyed by a number.   *)
BatchTables ==
    {Map(Present(<<Item(KN("default_table_settings"), Missings("drop")),
                   Item(KT(DataName), d),
                   Item(KI(1390), x),
                   Item(KI(1391), y)>>)) :
        d \in {Lenient, Strict}, x \in {Absent, Lenient}, y \in {Absent, Lenient, Strict}}

BatchFiles ==
    {OneFile(CsvPath(Year1390, FileCode), x) @@ OneFile(CsvPath(Year1391, FileCode), y)
        @@ OneFile(CsvPath(Text(DataName), FileCode), z) :
        x \in {Absent, RawGood}, y \in {Absent, RawDrift}, z \in {Absent, RawGood, RawDrift}}

YearLists == UNION {[1..n -> {Year1390, Year1391}] : n \in 0..MaxYears}

InitBatch ==
    /\ pc = "ready"
    /\ defaultDoc = RegistryDefaults
    /\ packageFiles = <<>>
    /\ rootFiles = <<>>
    /\ settings = <<>>
    /\ registry \in {Loaded(tables) : tables \in BatchTables}
    /\ call \in {[op |-> "save_cleaned_tables", table_names |-> t, years |-> y] :
                    t \in {AllTables, Names(<<Text(DataName)>>), Names(<<>>)},
                    y \in YearLists}
    /\ result = NoResult
    /\ edits = 0
    /\ extracted_data \in BatchFiles
    /\ cleaned_data \in {<<>>, OneFile(StaleName, StaleTable)}
    /\ batch = NoBatch

(* Lines 195-197: the pairs and the progress bar.                          *)
SaveCleanedTables ==
    /\ pc = "ready"
    /\ call.op = "save_cleaned_tables"
    /\ LET table_names == IF call.table_names.all THEN OriginalTables
                          ELSE call.table_names.names
           table_year == ConstructTableYearPairs(table_names, call.years)
       IN  batch' = [status |-> "running", table_year |-> table_year, i |-> 1,
                     pbar |-> [total |-> Len(table_year), n |-> 0, closed |-> FALSE],
                     written |-> <<>>]
    /\ pc' = "running"
    /\ UNCHANGED <<defaultDoc, packageFiles, rootFiles, settings, registry, call, result, edits,
                   extracted_data, cleaned_data>>

(* A loop body that leaves a pair out when its cleaning fails.             *)
SavePairOrSkip ==
    /\ pc = "running"
    /\ batch.i <= Len(batch.table_year)
    /\ \E table \in {CleanPair(batch.table_year[batch.i], registry["tables"],
                                extracted_data)} :
       LET pair == batch.table_year[batch.i]
           name == FileName(pair.year, pair.table_name)
       IN  IF table.ok
           THEN /\ cleaned_data' = ToParquet(cleaned_data, name, table.val)
                /\ batch' = [batch EXCEPT !.i = @ + 1, !.pbar.n = @ + 1,
                                          !.written = Append(@, name)]
           ELSE /\ batch' = [batch EXCEPT !.i = @ + 1, !.pbar.n = @ + 1]
                /\ UNCHANGED cleaned_data
    /\ UNCHANGED <<pc, result>>
    /\ UNCHANGED <<defaultDoc, packageFiles, rootFiles, settings, registry, call, edits,
                   extracted_data>>

(* Lines 198-206: one turn of the loop.                                    *)
SavePair ==
    /\ pc = "running"
    /\ batch.i <= Len(batch.table_year)
    /\ \E table \in {CleanPair(batch.table_year[batch.i], registry["tables"],
                                extracted_data)} :
       LET pair == batch.table_year[batch.i]
           name == FileName(pair.year, pair.table_name)
       IN  IF table.ok
           THEN /\ cleaned_data' = ToParquet(cleaned_data, name, table.val)
                /\ batch' = [batch EXCEPT !.i = @ + 1, !.pbar.n = @ + 1,
                                          !.written = Append(@, name)]
                /\ UNCHANGED <<pc, result>>
           ELSE /\ pc' = "raised"
                /\ result' = table
                /\ batch' = [batch EXCEPT !.status = "failed", !.pbar.n = @ + 1]
                /\ UNCHANGED cleaned_data
    /\ UNCHANGED <<defaultDoc, packageFiles, rootFiles, settings, registry, call, edits,
                   extracted_data>>

(* Line 207: the loop is over.                                             *)
Finish ==
    /\ pc = "running"
    /\ batch.i > Len(batch.table_year)
    /\ batch' = [batch EXCEPT !.status = "done", !.pbar.closed = TRUE]
    /\ pc' = "returned"
    /\ result' = Ok(Leaf(None))
    /\ UNCHANGED <<defaultDoc, packageFiles, rootFiles, settings, registry, call, edits,
                   extracted_data, cleaned_data>>

NextBatch == SaveCleanedTables \/ SavePair \/ Finish

SpecBatch == InitBatch /\ [][NextBatch]_vars

Range(seq) == {seq[k] : k \in 1..Len(seq)}

(* The pairs of the batch whose table the year's metadata and raw file     *)
(* allow to clean.                                                         *)
Cleanable(pair) ==
    OpenAndCleanTable(pair.year, pair.table_name, registry["tables"], extracted_data).ok

(* C9: when every pair is cleanable the batch ends having persisted, for   *)
(* each pair of the product, the cleaned table of that year under          *)
(* {year}_{tableName}.                                                     *)
C9_OneOutputPerPair ==
    ( /\ pc \in {"raised", "returned"}
      /\ \A k \in 1..Len(batch.table_year) : Cleanable(batch.table_year[k]) )
    => /\ batch.status = "done"
       /\ \A k \in 1..Len(batch.table_year) :
            LET pair == batch.table_year[k]
                name == FileName(pair.year, pair.table_name)
            IN  /\ name \in DOMAIN cleaned_data
                /\ cleaned_data[name] =
                     OpenAndCleanTable(pair.year, pair.table_name, registry["tables"],
                                       extracted_data).val

(* The pairs whose cleaning, as the loop calls it, fails.                  *)
Failing ==
    {k \in 1..Len(batch.table_year) :
        ~CleanPair(batch.table_year[k], registry["tables"], extracted_data).ok}

(* C10: the batch never goes past the first pair whose cleaning fails: the *)
(* files written are those of the pairs before it, every other file is as  *)
(* it was, the batch does not end as done, and when it has failed the      *)
(* caller holds that pair's failure.                                       *)
C10_AbortsAtFailure ==
    (batch.status # "idle" /\ Failing # {}) =>
        /\ batch.i <= Min(Failing)
        /\ batch.status # "done"
        /\ Len(batch.written) = batch.i - 1
        /\ \A k \in 1..Len(batch.written) :
             /\ batch.written[k] = FileName(batch.table_year[k].year,
                                             batch.table_year[k].table_name)
             /\ batch.written[k] \in DOMAIN cleaned_data
        /\ \A name \in DOMAIN cleaned_data :
             name \notin Range(batch.written) =>
                name = StaleName /\ cleaned_data[name] = StaleTable
        /\ batch.status = "failed" =>
             /\ batch.i = Min(Failing)
             /\ pc = "raised"
             /\ ~result.ok
             /\ result = CleanPair(batch.table_year[batch.i], registry["tables"],
                                   extracted_data)
             /\ ~ENABLED SavePair
             /\ ~ENABLED Finish

(* The first pair was cleaned and saved, the second failed: the batch has  *)
(* failed with one file written and a pair left.                           *)
C10_Witness ==
    /\ batch.status = "failed"
    /\ Len(batch.table_year) = 2
    /\ batch.i = 2
    /\ Len(batch.written) = 1
    /\ pc = "raised"
    /\ ~result.ok

----------------------------------------------------------------------------
(* The cleaned table against the raw columns it was made from.             *)

(* The raw columns whose metadata is a ColumnMetadata mapping.             *)
Kept ==
    {i \in 1..Len(RawTable) :
        Listed(RawTable[i].name) /\ ListedMetadata(RawTable[i].name) # Drop}

NewName(i) == Get(ListedMetadata(RawTable[i].name), KN("new_name")).val
CleanedValues(i) ==
    ApplyMetadataToColumn(RawTable[i].column, ListedMetadata(RawTable[i].name)).val
CleanedColumn(i) == Column(NewName(i), CleanedValues(i))

CleanSucceeded ==
    /\ pc \in {"cleaned", "cleaned again"}
    /\ call.op = "open_and_clean_table"
    /\ result.ok

(* C11: each kept raw column has its cleaned column, a kept column that    *)
(* precedes another in the raw table has its cleaned column before the     *)
(* other's, and no cleaned column comes from a dropped raw column.         *)
C11_OrderPreserved ==
    CleanSucceeded =>
        /\ \E h \in [Kept -> 1..Len(result.val)] :
             /\ \A i, k \in Kept : i < k => h[i] < h[k]
             /\ \A i \in Kept : result.val[h[i]] = CleanedColumn(i)
        /\ \A j \in 1..Len(result.val) : \E i \in Kept : result.val[j].name = NewName(i)

(* C15: the cleaned columns and the kept raw columns correspond one to     *)
(* one, each cleaned column holding the cleaned values of its raw column.  *)
C15_OneColumnPerKept ==
    CleanSucceeded =>
        /\ Len(result.val) = Cardinality(Kept)
        /\ \E h \in [Kept -> 1..Len(result.val)] :
             /\ \A i, k \in Kept : i # k => h[i] # h[k]
             /\ \A i \in Kept : result.val[h[i]] = CleanedColumn(i)

SameResult(first, second) ==
    /\ second.ok = first.ok
    /\ first.ok => second.val = first.val
    /\ ~first.ok => second.err = first.err

----------------------------------------------------------------------------
(* data_cleaner._get_column_metadata: looking up one column.               *)

TypeOnly == Map(<<Item(KN("type"), Leaf(Atom("integer")))>>)

ListedValues ==
    {Drop, ErrorPolicy, AgeMetadata, TypeOnly, Map(<<>>), Leaf(None), Leaf(Num(1)),
     Leaf(Atom("keep"))}

LookupColumns ==
    {Map(<<Item(KT(<<"A">>), v), Item(KT(<<"B">>), Drop)>>) : v \in ListedValues}
      \cup {Leaf(None), Leaf(Atom("drop"))}

LookupNames == {<<"A">>, <<"B">>, <<"Z">>}

InitLookup ==
    /\ pc = "ready"
    /\ defaultDoc = RegistryDefaults
    /\ packageFiles = <<>>
    /\ rootFiles = <<>>
    /\ settings = <<>>
    /\ registry \in {Loaded(TablesDocument(d, Lenient)) : d \in DefaultTableSettings}
    /\ call \in {[op |-> "_get_column_metadata", table_metadata |-> TableMetadata(s, c),
                  column_name |-> n] :
                    s \in TableSettings, c \in LookupColumns, n \in LookupNames}
    /\ result = NoResult
    /\ edits = 0
    /\ extracted_data = <<>>
    /\ cleaned_data = <<>>
    /\ batch = NoBatch

Lookup ==
    /\ pc = "ready"
    /\ call.op = "_get_column_metadata"
    /\ result' = GetColumnMetadata(call.table_metadata, call.column_name, registry["tables"])
    /\ pc' = "looked up"
    /\ UNCHANGED <<defaultDoc, packageFiles, rootFiles, settings, registry, call, edits,
                   extracted_data, cleaned_data, batch>>

NextLookup == Lookup

SpecLookup == InitLookup /\ [][NextLookup]_vars

ListedCase ==
    /\ pc = "looked up"
    /\ IsDict(Get(call.table_metadata, KN("columns")))
    /\ HasKey(Get(call.table_metadata, KN("columns")), KT(call.column_name))

ListedValue == Get(Get(call.table_metadata, KN("columns")), KT(call.column_name))

WellFormed(column_metadata) ==
    IsDict(column_metadata) /\ HasKey(column_metadata, KN("new_name"))

NotValid(column_name) ==
    Error("ValueError", "Metadata for column is not valid", <<>>, <<Text(column_name)>>)

(* What cleaning a table of this one column makes of the lookup.           *)
OneColumnTable ==
    ApplyMetadataToTable(<<Column(call.column_name, <<Num(1), Num(2)>>)>>,
                         call.table_metadata, registry["tables"])

(* C13 (as stated): a listed drop sentinel, error sentinel or well-formed  *)
(* mapping is returned; any other listed value fails with a SchemaError;   *)
(* a listed error sentinel makes the table fail as an unexpected column.   *)
C13_ListedErrorIsSentinel ==
    ListedCase =>
        /\ (ListedValue \in {Drop, ErrorPolicy} \/ WellFormed(ListedValue))
              => result = Ok(ListedValue)
        /\ ~(ListedValue \in {Drop, ErrorPolicy} \/ WellFormed(ListedValue))
              => ~result.ok /\ result.err.exc = "SchemaError"
        /\ ListedValue = ErrorPolicy
              => ~OneColumnTable.ok /\ OneColumnTable.err = ColumnNotFound(call.column_name)

(* C13 (amended): a listed drop sentinel or mapping, well-formed or not,   *)
(* is returned; any other listed value, the error sentinel included, fails *)
(* with the ValueError "Metadata for column ... is not valid", and so does *)
(* the cleaning of the table.                                              *)
C13_ListedLookup ==
    ListedCase =>
        /\ (ListedValue = Drop \/ IsDict(ListedValue)) => result = Ok(ListedValue)
        /\ ~(ListedValue = Drop \/ IsDict(ListedValue)) =>
              /\ ~result.ok
              /\ result.val = Absent
              /\ result.err = NotValid(call.column_name)
              /\ ~OneColumnTable.ok
              /\ OneColumnTable.err = NotValid(call.column_name)

(* The column is listed as "error" and its lookup failed as not valid,     *)
(* under a policy for unlisted columns of drop.                            *)
C13_Witness ==
    /\ ListedCase
    /\ ListedValue = ErrorPolicy
    /\ GetTableSettings(call.table_metadata, registry["tables"]).ok
    /\ Get(GetTableSettings(call.table_metadata, registry["tables"]).val, KN("missings")) = Drop
    /\ ~result.ok
    /\ result.err.msg = "Metadata for column is not valid"

----------------------------------------------------------------------------
(* The document a reload of one name would read now.                       *)
Fresh(name) == ReloadedDocument(name, settings, packageFiles, rootFiles)

(* C14: a step of reload_file(name) leaves every other document of the     *)
(* registry and the settings table as they were, and the registry then     *)
(* holds under name the document as the files have it now.                 *)
C14_ReloadFileFrame ==
    [][ call'.op = "reload_file" =>
          /\ \A other \in MetadataNames \ {call'.name} : registry'[other] = registry[other]
          /\ settings' = settings
          /\ registry'[call'.name] = Fresh(call'.name) ]_vars

(* After reload_file(name) the registry holds the document of name with    *)
(* its local override, while another document, whose local file was        *)
(* edited since it was loaded, is still the one loaded before.             *)
C14_Witness ==
    /\ call.op = "reload_file"
    /\ Exists(rootFiles, LocalPath(call.name))
    /\ registry[call.name] = Fresh(call.name)
    /\ registry[call.name] # PackageDocument(call.name)
    /\ \E other \in MetadataNames \ {call.name} : registry[other] # Fresh(other)

====
